---- MODULE Spec2Model ----
(***************************************************************************)
(* Model of lib/Utils.js of local-echo: the ANSI stripper, the cursor      *)
(* geometry walk, the shell-completeness heuristic and the autocomplete    *)
(* engine.                                                                 *)
(*                                                                         *)
(* A JavaScript string is modelled as a sequence of characters; a          *)
(* character is a one-element TLA+ string naming it.                       *)
(***************************************************************************)
EXTENDS Integers, Sequences, FiniteSets, TLC

VARIABLES
    pc,             \* position of the running function
    ansi_input,     \* the argument as passed (before removeANSI)
    input,          \* the `input` local of the running function
    stripped,       \* removeANSI(input)
    restripped,     \* removeANSI(removeANSI(input))
    offset,         \* offsetToColRow: offset
    maxCols,        \* offsetToColRow: maxCols
    i,              \* offsetToColRow: loop index (0-based, as in the code)
    row,            \* offsetToColRow: row
    col,            \* offsetToColRow: col
    lines,          \* countLines: returned value
    incomplete,     \* isIncompleteInput(input)
    edited,         \* input after one quote was typed or deleted
    editedIncomplete, \* isIncompleteInput(edited)
    callbacks,      \* collectAutocompleteCandidates: behaviour of each callback
    tokens,         \* collectAutocompleteCandidates: tokens
    index,          \* collectAutocompleteCandidates: index
    expr,           \* collectAutocompleteCandidates: expr
    k,              \* collectAutocompleteCandidates: position of the reduce
    all,            \* collectAutocompleteCandidates: accumulator of the reduce
    calls,          \* log of the callback invocations, in order
    errors,         \* number of console.error calls
    result,         \* returned value of collectAutocompleteCandidates
    thrown,         \* TRUE when an exception left collectAutocompleteCandidates
    fragment,       \* getSharedFragment: fragment argument
    candidates,     \* getSharedFragment: candidates argument
    shared          \* getSharedFragment: returned value

vars == <<pc, ansi_input, input, stripped, restripped, offset, maxCols, i, row,
          col, lines, incomplete, edited, editedIncomplete, callbacks, tokens,
          index, expr, k, all, calls, errors, result, thrown, fragment,
          candidates, shared>>

stripVars == <<stripped, restripped>>
geomVars == <<ansi_input, offset, maxCols, i, row, col, lines>>
incompleteVars == <<incomplete, edited, editedIncomplete>>
collectVars == <<callbacks, tokens, index, expr, k, all, calls, errors, result, thrown>>
sharedVars == <<fragment, candidates, shared>>

(***************************************************************************)
(* Characters                                                              *)
(***************************************************************************)
ESC == "ESC"
LBRACKET == "["
SEMI == ";"
BS == "\\"
NL == "NL"
SPACE == " "
TAB == "TAB"
SQ == "'"
DQ == "dq"
PIPE == "|"
AMP == "&"
ZWJ == "U+200D"
HEBREW == "U+05D0"
CJK == "U+4E2D"

\* a value no function returns as a string
None == <<"none">>
\* JavaScript null
Null == <<"null">>

(***************************************************************************)
(* String helpers                                                          *)
(***************************************************************************)
\* String.prototype.charAt, 1-based; "" past the end
charAt(s, n) == IF n >= 1 /\ n <= Len(s) THEN s[n] ELSE ""

\* String.prototype.startsWith
startsWith(s, p) == Len(p) <= Len(s) /\ SubSeq(s, 1, Len(p)) = p

\* String.prototype.endsWith
endsWith(s, p) == Len(p) <= Len(s) /\ SubSeq(s, Len(s) - Len(p) + 1, Len(s)) = p

\* the white space of String.prototype.trim and of \s
WhiteSpace == {SPACE, TAB, NL}

\* String.prototype.trim
trim(s) ==
    IF \A n \in 1..Len(s) : s[n] \in WhiteSpace
    THEN <<>>
    ELSE LET first == CHOOSE n \in 1..Len(s) :
                        s[n] \notin WhiteSpace /\ \A m \in 1..(n - 1) : s[m] \in WhiteSpace
             last == CHOOSE n \in 1..Len(s) :
                        s[n] \notin WhiteSpace /\ \A m \in (n + 1)..Len(s) : s[m] \in WhiteSpace
         IN SubSeq(s, first, last)

\* all strings over alphabet of length at most n
StringsUpTo(alphabet, n) == UNION {[1..m -> alphabet] : m \in 0..n}

\* number of occurrences of character c in s
RECURSIVE countChar(_, _)
countChar(s, c) ==
    IF s = <<>> THEN 0
    ELSE (IF Head(s) = c THEN 1 ELSE 0) + countChar(Tail(s), c)

(***************************************************************************)
(* removeANSI: input.replace(/\x1B\[([0-9]{1,2}(;[0-9]{1,2})?)?[m|K]/g,'') *)
(***************************************************************************)
\* [0-9]
Digits == {"0", "1", "2", "3", "4", "5", "6", "7", "8", "9"}

\* the character class [m|K] that ends the pattern
AnsiTerminators == {"m", "|", "K"}

\* [0-9]{1,2} at position p: the number of digits taken
digitRun(s, p) ==
    IF charAt(s, p) \in Digits
    THEN (IF charAt(s, p + 1) \in Digits THEN 2 ELSE 1)
    ELSE 0

\* length of the match of the pattern that starts at position p, 0 when none;
\* `terminators` is the final character class
ansiMatchLen(s, p, terminators) ==
    IF charAt(s, p) # ESC \/ charAt(s, p + 1) # LBRACKET THEN 0
    ELSE LET d == digitRun(s, p + 2)
             q == p + 2 + d
             e == digitRun(s, q + 1)
         IN IF charAt(s, q) \in terminators THEN q - p + 1
            ELSE IF d > 0 /\ charAt(s, q) = SEMI /\ e > 0
                    /\ charAt(s, q + 1 + e) \in terminators
                 THEN q + 1 + e - p + 1
                 ELSE 0

\* replace without the g flag: only the first match is removed
RECURSIVE replaceAnsiFirst(_, _, _)
replaceAnsiFirst(s, p, terminators) ==
    IF p > Len(s) THEN <<>>
    ELSE LET n == ansiMatchLen(s, p, terminators)
         IN IF n > 0 THEN SubSeq(s, p + n, Len(s))
            ELSE <<s[p]>> \o replaceAnsiFirst(s, p + 1, terminators)

\* global replace by '': scan left to right, matches do not overlap
RECURSIVE replaceAnsi(_, _, _)
replaceAnsi(s, p, terminators) ==
    IF p > Len(s) THEN <<>>
    ELSE LET n == ansiMatchLen(s, p, terminators)
         IN IF n > 0 THEN replaceAnsi(s, p + n, terminators)
            ELSE <<s[p]>> \o replaceAnsi(s, p + 1, terminators)

removeANSI(s) == replaceAnsi(s, 1, AnsiTerminators)

(***************************************************************************)
(* Values of the variables a specification does not use                    *)
(***************************************************************************)
StripIdle == stripped = None /\ restripped = None
GeomIdle ==
    /\ ansi_input = None /\ offset = 0 /\ maxCols = 0
    /\ i = 0 /\ row = 0 /\ col = 0 /\ lines = 0
IncompleteIdle == incomplete = FALSE /\ edited = None /\ editedIncomplete = FALSE
CollectIdle ==
    /\ callbacks = <<>> /\ tokens = <<>> /\ index = 0 /\ expr = <<>>
    /\ k = 0 /\ all = <<>> /\ calls = <<>> /\ errors = 0
    /\ result = None /\ thrown = FALSE
SharedIdle == fragment = <<>> /\ candidates = <<>> /\ shared = None

(***************************************************************************)
(* Specifications SpecStrip and SpecRestrip: removeANSI applied once, then *)
(* to its own output. SpecStrip draws short inputs over every character    *)
(* the pattern distinguishes; SpecRestrip draws longer inputs, long enough *)
(* to hold one escape sequence inside another.                             *)
(***************************************************************************)
\* longest input of SpecStrip
MaxAnsiLen == 4
\* longest input of SpecRestrip
MaxNestedLen == 6

\* characters of the inputs of SpecStrip
AnsiAlphabet == {ESC, LBRACKET, "1", SEMI, "m", "K", "|", "a"}
\* characters of the inputs of SpecRestrip
NestedAlphabet == {ESC, LBRACKET, "1", SEMI, "m", "K", "a"}

InitStrip ==
    /\ pc = "removeANSI"
    /\ input \in StringsUpTo(AnsiAlphabet, MaxAnsiLen)
    /\ StripIdle /\ GeomIdle /\ IncompleteIdle /\ CollectIdle /\ SharedIdle

\* removeANSI(input)
RemoveANSI ==
    /\ pc = "removeANSI"
    /\ stripped' = removeANSI(input)
    /\ pc' = "removeANSI again"
    /\ UNCHANGED <<input, restripped, geomVars, incompleteVars, collectVars, sharedVars>>

\* removeANSI(removeANSI(input))
RemoveANSIAgain ==
    /\ pc = "removeANSI again"
    /\ restripped' = removeANSI(stripped)
    /\ pc' = "done"
    /\ UNCHANGED <<input, stripped, geomVars, incompleteVars, collectVars, sharedVars>>

NextStrip == RemoveANSI \/ RemoveANSIAgain

SpecStrip == InitStrip /\ [][NextStrip]_vars

InitRestrip ==
    /\ pc = "removeANSI"
    /\ input \in StringsUpTo(NestedAlphabet, MaxNestedLen)
    /\ StripIdle /\ GeomIdle /\ IncompleteIdle /\ CollectIdle /\ SharedIdle

SpecRestrip == InitRestrip /\ [][NextStrip]_vars

\* every ESC of s begins a sequence that removeANSI removes
WellFormedAnsi(s) ==
    \A p \in 1..Len(s) : s[p] = ESC => ansiMatchLen(s, p, AnsiTerminators) > 0

\* C6 as stated: removeANSI is idempotent, removeANSI(removeANSI(s)) =
\* removeANSI(s) for every string s.
C6_Idempotent == pc = "done" => restripped = stripped

\* C6 amended: when every ESC of s begins a removable sequence, the output of
\* one pass contains no ESC and a second pass leaves it unchanged.
C6_IdempotentOnWellFormed ==
    (pc = "done" /\ WellFormedAnsi(input)) =>
        /\ \A p \in 1..Len(stripped) : stripped[p] # ESC
        /\ restripped = stripped

\* a well-formed input with a two-parameter escape sequence and text left over
C6_Witness ==
    /\ pc = "done"
    /\ WellFormedAnsi(input)
    /\ \E p \in 1..Len(input) : input[p] = ESC /\ charAt(input, p + 3) = SEMI
    /\ stripped # <<>>
    /\ stripped # input
    /\ restripped = stripped

\* the terminators the description names: 'm' or 'K'
CsiTerminators == {"m", "K"}

\* C7: removeANSI removes exactly the sequences ESC '[' [param [';' param]]
\* terminated by 'm' or 'K'; every other character is left untouched, in order.
C7_RemovesExactlyCsi ==
    pc # "removeANSI" => stripped = replaceAnsi(input, 1, CsiTerminators)

(***************************************************************************)
(* calcWidth, offsetToColRow, countLines                                   *)
(***************************************************************************)
\* representatives of the character classes of calcWidth
ZeroWidthChars == {ZWJ}
SpecialChars == {HEBREW}
WideChars == {CJK}

\* width of one character, the body of the loop of calcWidth
charWidth(c) ==
    IF c \in ZeroWidthChars THEN 0
    ELSE IF c \in SpecialChars THEN 0
    ELSE IF c \in WideChars THEN 2
    ELSE 1

RECURSIVE calcWidth(_)
calcWidth(str) ==
    IF str = <<>> THEN 0 ELSE charWidth(Head(str)) + calcWidth(Tail(str))

\* the character the loop of offsetToColRow looks at: input.charAt(i)
chr == charAt(input, i + 1)

\* col after one iteration of the loop on character c
walkCol(c, oldCol, width) ==
    IF c = NL THEN 0
    ELSE IF oldCol + calcWidth(<<c>>) > width THEN 0
    ELSE oldCol + calcWidth(<<c>>)

\* row after one iteration of the loop on character c
walkRow(c, oldRow, oldCol, width) ==
    IF c = NL THEN oldRow + 1
    ELSE IF oldCol + calcWidth(<<c>>) > width THEN oldRow + 1
    ELSE oldRow

\* longest input of SpecGeom
MaxGeomLen == 4
\* widest terminal of SpecGeom
MaxColumns == 3

\* characters of the inputs of SpecGeom
GeomAlphabet == {"a", CJK, ZWJ, NL, ESC, LBRACKET, "m"}

InitGeom ==
    /\ pc = "countLines"
    /\ ansi_input \in StringsUpTo(GeomAlphabet, MaxGeomLen)
    /\ input = ansi_input
    /\ maxCols \in 1..MaxColumns
    /\ offset = 0 /\ i = 0 /\ row = 0 /\ col = 0 /\ lines = 0
    /\ StripIdle /\ IncompleteIdle /\ CollectIdle /\ SharedIdle

\* countLines calls offsetToColRow(input, input.length, maxCols), which strips
\* the input and moves the offset back by the number of removed characters
OffsetToColRowEnter ==
    /\ pc = "countLines"
    /\ input' = removeANSI(ansi_input)
    /\ offset' = Len(ansi_input) - (Len(ansi_input) - Len(input'))
    /\ row' = 0 /\ col' = 0 /\ i' = 0
    /\ pc' = "loop"
    /\ UNCHANGED <<ansi_input, maxCols, lines, stripVars, incompleteVars, collectVars, sharedVars>>

\* one iteration of the loop on a newline
WalkNewline ==
    /\ pc = "loop" /\ i < offset /\ chr = NL
    /\ col' = walkCol(chr, col, maxCols)
    /\ row' = walkRow(chr, row, col, maxCols)
    /\ i' = i + 1
    /\ UNCHANGED <<pc, ansi_input, input, offset, maxCols, lines, stripVars, incompleteVars, collectVars, sharedVars>>

\* one iteration of the loop on any other character
WalkChar ==
    /\ pc = "loop" /\ i < offset /\ chr # NL
    /\ col' = walkCol(chr, col, maxCols)
    /\ row' = walkRow(chr, row, col, maxCols)
    /\ i' = i + 1
    /\ UNCHANGED <<pc, ansi_input, input, offset, maxCols, lines, stripVars, incompleteVars, collectVars, sharedVars>>

\* the loop ends; countLines returns row + 1
CountLinesReturn ==
    /\ pc = "loop" /\ i >= offset
    /\ lines' = row + 1
    /\ pc' = "done"
    /\ UNCHANGED <<ansi_input, input, offset, maxCols, i, row, col, stripVars, incompleteVars, collectVars, sharedVars>>

NextGeom == OffsetToColRowEnter \/ WalkNewline \/ WalkChar \/ CountLinesReturn

SpecGeom == InitGeom /\ [][NextGeom]_vars

\* rows a terminal `width` columns wide needs to show s from position (r, c):
\* a newline starts a row, a character that does not fit starts the next row
\* and occupies its own width there
RECURSIVE displayRows(_, _, _, _)
displayRows(s, width, r, c) ==
    IF s = <<>> THEN r + 1
    ELSE IF Head(s) = NL THEN displayRows(Tail(s), width, r + 1, 0)
    ELSE IF c + charWidth(Head(s)) > width
         THEN displayRows(Tail(s), width, r + 1, charWidth(Head(s)))
         ELSE displayRows(Tail(s), width, r, c + charWidth(Head(s)))

\* every character of s fits in a row of `width` columns
Displayable(s, width) == \A n \in 1..Len(s) : charWidth(s[n]) <= width

\* C9: countLines is at least 1 and is 1 + the newlines and wraps needed to
\* display the stripped input maxCols wide; a run of n > 0 single-width
\* characters takes the number of rows of maxCols columns that hold n.
C9_LinesNeeded ==
    pc = "done" =>
        /\ lines >= 1
        /\ Displayable(input, maxCols) => lines = displayRows(input, maxCols, 0, 0)
        /\ (input # <<>> /\ \A n \in 1..Len(input) : input[n] = "a")
              => lines = (Len(input) + maxCols - 1) \div maxCols

\* C10: in the walk the column never exceeds maxCols, and a character that
\* would cross maxCols wraps first and then counts its own width on the new
\* row (column 2 for a double-width character, 1 for a single-width one).
C10_WrapThenWidth ==
    [][(pc = "loop" /\ i < offset /\ chr # NL) =>
          /\ col' <= maxCols
          /\ (charWidth(chr) <= maxCols /\ col + charWidth(chr) > maxCols) =>
                (row' = row + 1 /\ col' = charWidth(chr))]_vars

\* the part of C10 the walk does keep: the column never exceeds maxCols
ColumnWithinMax == col <= maxCols

\* the part of C9 countLines does keep: at least one line
AtLeastOneLine == pc = "done" => lines >= 1

(***************************************************************************)
(* isIncompleteInput                                                       *)
(***************************************************************************)
\* length of the match of /(\|\||\||&&)/ that starts at position p, 0 when none
operatorLenAt(s, p) ==
    IF charAt(s, p) = PIPE /\ charAt(s, p + 1) = PIPE THEN 2
    ELSE IF charAt(s, p) = PIPE THEN 1
    ELSE IF charAt(s, p) = AMP /\ charAt(s, p + 1) = AMP THEN 2
    ELSE 0

\* input.split(/(\|\||\||&&)/g).pop(): what follows the last operator matched
\* by the left-to-right scan; `start` is where the current segment begins
RECURSIVE splitPop(_, _, _)
splitPop(s, p, start) ==
    IF p > Len(s) THEN SubSeq(s, start, Len(s))
    ELSE LET n == operatorLenAt(s, p)
         IN IF n > 0 THEN splitPop(s, p + n, p + n)
            ELSE splitPop(s, p + 1, start)

\* isIncompleteInput without the check of the double quotes
isIncompleteInputNoDoubleQuotes(s) ==
    IF trim(s) = <<>> THEN FALSE
    ELSE IF countChar(s, SQ) % 2 # 0 THEN TRUE
    ELSE IF trim(splitPop(s, 1, 1)) = <<>> THEN TRUE
    ELSE IF endsWith(s, <<BS>>) /\ ~endsWith(s, <<BS, BS>>) THEN TRUE
    ELSE FALSE

isIncompleteInput(s) ==
    IF trim(s) = <<>> THEN FALSE
    ELSE IF countChar(s, SQ) % 2 # 0 THEN TRUE
    ELSE IF countChar(s, DQ) % 2 # 0 THEN TRUE
    ELSE IF trim(splitPop(s, 1, 1)) = <<>> THEN TRUE
    ELSE IF endsWith(s, <<BS>>) /\ ~endsWith(s, <<BS, BS>>) THEN TRUE
    ELSE FALSE

\* longest input of SpecIncomplete
MaxShellLen == 4

\* characters of the inputs of SpecIncomplete
ShellAlphabet == {"a", SPACE, SQ, DQ, PIPE, AMP, BS}

InitIncomplete ==
    /\ pc = "isIncompleteInput"
    /\ input \in StringsUpTo(ShellAlphabet, MaxShellLen)
    /\ incomplete = FALSE /\ edited = None /\ editedIncomplete = FALSE
    /\ StripIdle /\ GeomIdle /\ CollectIdle /\ SharedIdle

\* isIncompleteInput(input)
IsIncompleteInput ==
    /\ pc = "isIncompleteInput"
    /\ incomplete' = isIncompleteInput(input)
    /\ pc' = "edit"
    /\ UNCHANGED <<input, edited, editedIncomplete, stripVars, geomVars, collectVars, sharedVars>>

\* the user types one quote somewhere in the line, which is evaluated again
TypeQuote ==
    /\ pc = "edit"
    /\ \E q \in {SQ, DQ}, n \in 0..Len(input) :
          edited' = SubSeq(input, 1, n) \o <<q>> \o SubSeq(input, n + 1, Len(input))
    /\ editedIncomplete' = isIncompleteInput(edited')
    /\ pc' = "done"
    /\ UNCHANGED <<input, incomplete, stripVars, geomVars, collectVars, sharedVars>>

\* the user deletes one quote of the line, which is evaluated again
DeleteQuote ==
    /\ pc = "edit"
    /\ \E n \in 1..Len(input) :
          /\ input[n] \in {SQ, DQ}
          /\ edited' = SubSeq(input, 1, n - 1) \o SubSeq(input, n + 1, Len(input))
    /\ editedIncomplete' = isIncompleteInput(edited')
    /\ pc' = "done"
    /\ UNCHANGED <<input, incomplete, stripVars, geomVars, collectVars, sharedVars>>

NextIncomplete == IsIncompleteInput \/ TypeQuote \/ DeleteQuote

SpecIncomplete == InitIncomplete /\ [][NextIncomplete]_vars

\* s without its trailing white space
RECURSIVE trimEnd(_)
trimEnd(s) ==
    IF s # <<>> /\ s[Len(s)] \in WhiteSpace THEN trimEnd(SubSeq(s, 1, Len(s) - 1)) ELSE s

\* s ends, ignoring trailing white space, right after ||, | or &&
EndsAfterOperator(s) ==
    \/ endsWith(trimEnd(s), <<PIPE>>)
    \/ endsWith(trimEnd(s), <<AMP, AMP>>)

\* number of backslashes that end s
RECURSIVE trailingBackslashes(_)
trailingBackslashes(s) ==
    IF s # <<>> /\ s[Len(s)] = BS THEN 1 + trailingBackslashes(SubSeq(s, 1, Len(s) - 1)) ELSE 0

\* s ends in a backslash that no backslash escapes
EndsInUnescapedBackslash(s) == trailingBackslashes(s) % 2 = 1

\* the strings the first half of C8 is about
Balanced(s) ==
    /\ countChar(s, SQ) % 2 = 0
    /\ countChar(s, DQ) % 2 = 0
    /\ ~EndsAfterOperator(s)
    /\ ~EndsInUnescapedBackslash(s)

\* C8: isIncompleteInput is false for every string with an even number of
\* single quotes and of double quotes, no trailing operator and no trailing
\* unescaped backslash; when such a string is not all white space, changing
\* the parity of either quote count makes isIncompleteInput true.
C8_BalancedIsComplete ==
    /\ (pc # "isIncompleteInput" /\ Balanced(input)) => incomplete = FALSE
    /\ (pc = "done" /\ Balanced(input) /\ trim(input) # <<>>) => editedIncomplete = TRUE

\* a balanced line with quotes, an operator and an escaped backslash, made
\* incomplete by typing a double quote
C8_Witness ==
    /\ pc = "done"
    /\ Balanced(input) /\ trim(input) # <<>>
    /\ incomplete = FALSE
    /\ countChar(input, PIPE) > 0
    /\ countChar(edited, DQ) = 1
    /\ countChar(edited, SQ) = 0
    /\ editedIncomplete = TRUE

(***************************************************************************)
(* getSharedFragment                                                       *)
(***************************************************************************)
\* the candidates on which the for loop returns: those that do not start
\* with the old fragment or with the new one
stopsAt(oldFragment, newFragment, cands) ==
    {n \in 1..Len(cands) :
        ~startsWith(cands[n], oldFragment) \/ ~startsWith(cands[n], newFragment)}

\* the first of them
firstStop(oldFragment, newFragment, cands) ==
    CHOOSE n \in stopsAt(oldFragment, newFragment, cands) :
        \A m \in stopsAt(oldFragment, newFragment, cands) : n <= m

\* getSharedFragment returning the new fragment where it should return the old
RECURSIVE getSharedFragmentNew(_, _)
getSharedFragmentNew(frag, cands) ==
    IF Len(frag) >= Len(cands[1]) THEN frag
    ELSE LET oldFragment == frag
             newFragment == frag \o <<cands[1][Len(frag) + 1]>>
         IN IF stopsAt(oldFragment, newFragment, cands) = {}
            THEN getSharedFragmentNew(newFragment, cands)
            ELSE IF ~startsWith(cands[firstStop(oldFragment, newFragment, cands)], oldFragment)
                 THEN Null
                 ELSE newFragment

RECURSIVE getSharedFragment(_, _)
getSharedFragment(frag, cands) ==
    IF Len(frag) >= Len(cands[1]) THEN frag
    ELSE LET oldFragment == frag
             newFragment == frag \o <<cands[1][Len(frag) + 1]>>
         IN IF stopsAt(oldFragment, newFragment, cands) = {}
            THEN getSharedFragment(newFragment, cands)
            ELSE IF ~startsWith(cands[firstStop(oldFragment, newFragment, cands)], oldFragment)
                 THEN Null
                 ELSE oldFragment

\* longest fragment of SpecShared
MaxFragmentLen == 2
\* longest candidate of SpecShared
MaxCandidateLen == 2
\* most candidates of SpecShared
MaxCandidates == 3

\* characters of the fragments and candidates of SpecShared
SharedAlphabet == {"a", "b"}

InitShared ==
    /\ pc = "getSharedFragment"
    /\ fragment \in StringsUpTo(SharedAlphabet, MaxFragmentLen)
    /\ candidates \in UNION {[1..n -> StringsUpTo(SharedAlphabet, MaxCandidateLen)] :
                               n \in 1..MaxCandidates}
    /\ shared = None
    /\ StripIdle /\ GeomIdle /\ IncompleteIdle /\ CollectIdle
    /\ input = <<>>

\* getSharedFragment(fragment, candidates)
GetSharedFragment ==
    /\ pc = "getSharedFragment"
    /\ shared' = getSharedFragment(fragment, candidates)
    /\ pc' = "done"
    /\ UNCHANGED <<input, fragment, candidates, stripVars, geomVars, incompleteVars, collectVars>>

NextShared == GetSharedFragment

SpecShared == InitShared /\ [][NextShared]_vars

\* every candidate starts with p
CommonPrefix(p, cands) == \A n \in 1..Len(cands) : startsWith(cands[n], p)

\* C4: getSharedFragment returns null whenever some candidate does not start
\* with the fragment it was called with, whatever the position of that
\* candidate and whatever the length of the fragment.
C4_NullOnWrongCandidate ==
    (pc = "done" /\ ~CommonPrefix(fragment, candidates)) => shared = Null

\* C5: when every candidate starts with the fragment, getSharedFragment
\* returns the longest common prefix of the candidates: it starts with the
\* fragment, every candidate starts with it, and it is candidates[0] or its
\* extension by the next character of candidates[0] is not a common prefix.
C5_LongestCommonPrefix ==
    (pc = "done" /\ CommonPrefix(fragment, candidates)) =>
        /\ shared # Null /\ shared # None
        /\ startsWith(shared, fragment)
        /\ CommonPrefix(shared, candidates)
        /\ \/ shared = candidates[1]
           \/ ~CommonPrefix(SubSeq(candidates[1], 1, Len(shared) + 1), candidates)
        /\ \A m \in 0..Len(candidates[1]) :
              CommonPrefix(SubSeq(candidates[1], 1, m), candidates) => m <= Len(shared)

\* several candidates whose common prefix is longer than the fragment and
\* shorter than the first candidate
C5_Witness ==
    /\ pc = "done"
    /\ CommonPrefix(fragment, candidates)
    /\ Len(candidates) >= 2
    /\ Len(shared) > Len(fragment)
    /\ shared # candidates[1]

(***************************************************************************)
(* hasTailingWhitespace, the tokenizer, collectAutocompleteCandidates      *)
(***************************************************************************)
\* input.match(/[^\\][ \t]$/m) != null: a space or tab that ends a line and
\* follows a character other than a backslash
hasTailingWhitespace(s) ==
    \E p \in 1..(Len(s) - 1) :
        /\ s[p] # BS
        /\ s[p + 1] \in {SPACE, TAB}
        /\ (p + 1 = Len(s) \/ s[p + 2] = NL)

\* the tokenizer: length of the bare word that starts at position p, made of
\* backslash-escaped blanks and of characters that are not white space
RECURSIVE wordLen(_, _)
wordLen(s, p) ==
    IF p > Len(s) THEN 0
    ELSE IF s[p] = BS /\ charAt(s, p + 1) \in {SPACE, TAB} THEN 2 + wordLen(s, p + 2)
    ELSE IF s[p] \notin WhiteSpace THEN 1 + wordLen(s, p + 1)
    ELSE 0

\* the tokenizer: a word with its escapes resolved; a backslash makes the next
\* character literal, a backslash that ends the word is dropped
RECURSIVE unescape(_, _)
unescape(w, esc) ==
    IF w = <<>> THEN <<>>
    ELSE IF esc THEN <<Head(w)>> \o unescape(Tail(w), FALSE)
    ELSE IF Head(w) = BS THEN unescape(Tail(w), TRUE)
    ELSE <<Head(w)>> \o unescape(Tail(w), FALSE)

\* the tokenizer: the tokens of s from position p on
RECURSIVE parseFrom(_, _)
parseFrom(s, p) ==
    IF p > Len(s) THEN <<>>
    ELSE IF wordLen(s, p) = 0 THEN parseFrom(s, p + 1)
    ELSE <<unescape(SubSeq(s, p, p + wordLen(s, p) - 1), FALSE)>>
            \o parseFrom(s, p + wordLen(s, p))

parse(s) == parseFrom(s, 1)

\* tokens[index] || ""
tokenOrEmpty(toks, idx) ==
    IF idx >= 0 /\ idx < Len(toks) THEN toks[idx + 1] ELSE <<>>

\* the index that never moves past the last token on trailing white space
activeIndexNoAdvance(s, toks) ==
    IF trim(s) = <<>> THEN 0
    ELSE Len(toks) - 1

\* the index passed to the callbacks (0-based, as in the code)
activeIndex(s, toks) ==
    IF trim(s) = <<>> THEN 0
    ELSE IF hasTailingWhitespace(s) THEN (Len(toks) - 1) + 1
    ELSE Len(toks) - 1

\* the expression the candidates are filtered with
activeExpr(s, toks) ==
    IF trim(s) = <<>> THEN <<>>
    ELSE IF hasTailingWhitespace(s) THEN <<>>
    ELSE tokenOrEmpty(toks, Len(toks) - 1)

\* a catch branch that starts over from no candidates
catchResultDiscard(acc) == <<>>

\* the catch branch of the reduce: return candidates
catchResult(acc) == acc

\* a filter that keeps the candidates that contain the expression anywhere
RECURSIVE filterContains(_, _)
filterContains(cands, e) ==
    IF cands = <<>> THEN <<>>
    ELSE (IF \E n \in 0..Len(Head(cands)) : startsWith(SubSeq(Head(cands), n + 1, Len(Head(cands))), e)
          THEN <<Head(cands)>> ELSE <<>>)
         \o filterContains(Tail(cands), e)

\* all.filter(txt => txt.startsWith(expr))
RECURSIVE filterStartsWith(_, _)
filterStartsWith(cands, e) ==
    IF cands = <<>> THEN <<>>
    ELSE (IF startsWith(Head(cands), e) THEN <<Head(cands)>> ELSE <<>>)
         \o filterStartsWith(Tail(cands), e)

\* longest input of Spec
MaxInputLen == 3
\* most callbacks of Spec
MaxCallbacks == 2

\* characters of the inputs of Spec
InputAlphabet == {"a", "b", SPACE, NL, BS}

\* what a callback does when it is called: throw, or return candidates
Behaviours ==
    {[throws |-> TRUE, returns |-> <<>>]} \cup
    {[throws |-> FALSE, returns |-> r] :
        r \in {<<>>,
               << <<"a">> >>,
               << <<"a", "b">>, <<"a">> >>,
               << <<"b">>, <<"b", "a">>, <<"a", "b">> >>,
               << <<"a", SPACE>>, <<"a", "b">>, <<"a", SPACE>> >>}}

Init ==
    /\ pc = "collectAutocompleteCandidates"
    /\ input \in StringsUpTo(InputAlphabet, MaxInputLen)
    /\ callbacks \in UNION {[1..n -> Behaviours] : n \in 0..MaxCallbacks}
    /\ tokens = <<>> /\ index = 0 /\ expr = <<>>
    /\ k = 0 /\ all = <<>> /\ calls = <<>> /\ errors = 0
    /\ result = None /\ thrown = FALSE
    /\ StripIdle /\ GeomIdle /\ IncompleteIdle /\ SharedIdle

\* tokenize the input and find the active token
CollectEnter ==
    /\ pc = "collectAutocompleteCandidates"
    /\ tokens' = parse(input)
    /\ index' = activeIndex(input, tokens')
    /\ expr' = activeExpr(input, tokens')
    /\ k' = 1
    /\ all' = <<>>
    /\ pc' = "reduce"
    /\ UNCHANGED <<input, callbacks, calls, errors, result, thrown,
                   stripVars, geomVars, incompleteVars, sharedVars>>

\* the reduce calls callback k, which returns candidates
CallbackReturns ==
    /\ pc = "reduce" /\ k <= Len(callbacks)
    /\ ~callbacks[k].throws
    /\ calls' = Append(calls, [callback |-> k, index |-> index, tokens |-> tokens])
    /\ all' = all \o callbacks[k].returns
    /\ k' = k + 1
    /\ UNCHANGED <<pc, input, callbacks, tokens, index, expr, errors, result, thrown,
                   stripVars, geomVars, incompleteVars, sharedVars>>

\* the reduce calls callback k, which throws: the error is caught and logged
CallbackThrows ==
    /\ pc = "reduce" /\ k <= Len(callbacks)
    /\ callbacks[k].throws
    /\ calls' = Append(calls, [callback |-> k, index |-> index, tokens |-> tokens])
    /\ errors' = errors + 1
    /\ all' = catchResult(all)
    /\ k' = k + 1
    /\ UNCHANGED <<pc, input, callbacks, tokens, index, expr, result, thrown,
                   stripVars, geomVars, incompleteVars, sharedVars>>

\* the reduce is over: filter and return
CollectReturn ==
    /\ pc = "reduce" /\ k > Len(callbacks)
    /\ result' = filterStartsWith(all, expr)
    /\ pc' = "done"
    /\ UNCHANGED <<input, callbacks, tokens, index, expr, k, all, calls, errors, thrown,
                   stripVars, geomVars, incompleteVars, sharedVars>>

Next == CollectEnter \/ CallbackReturns \/ CallbackThrows \/ CollectReturn

Spec == Init /\ [][Next]_vars

\* the candidates returned by the callbacks 1..n that did not throw, in order
RECURSIVE Returned(_)
Returned(n) ==
    IF n = 0 THEN <<>>
    ELSE Returned(n - 1) \o (IF callbacks[n].throws THEN <<>> ELSE callbacks[n].returns)

\* C1: every callback is invoked exactly once, in list order, whatever the
\* earlier ones did; a callback that throws adds no candidate, keeps the
\* candidates collected so far, does not stop the later callbacks, and its
\* exception never leaves collectAutocompleteCandidates.
C1_FailureIsolation ==
    /\ thrown = FALSE
    /\ \A n \in 1..Len(calls) : calls[n].callback = n
    /\ pc = "reduce" => Len(calls) = k - 1
    /\ pc = "done" => (Len(calls) = Len(callbacks) /\ result # None)
    /\ errors = Cardinality({n \in 1..Len(calls) : callbacks[n].throws})
    /\ all = Returned(Len(calls))

\* a callback that throws, followed by one whose candidates are returned
C1_Witness ==
    /\ pc = "done"
    /\ Len(callbacks) = 2
    /\ callbacks[1].throws
    /\ ~callbacks[2].throws
    /\ errors = 1
    /\ result # <<>>

\* positions of the candidates of cands that start with e
KeptPositions(cands, e) == {n \in 1..Len(cands) : startsWith(cands[n], e)}

\* C2: the result is the concatenation of the candidates of the callbacks that
\* did not throw, in callback order and in each callback's order, restricted
\* to those that start with the active token text: nothing is reordered,
\* duplicated, added or lost.
C2_ResultIsFilteredConcatenation ==
    pc = "done" =>
        LET returned == Returned(Len(callbacks))
            kept == KeptPositions(returned, expr)
        IN /\ Len(result) = Cardinality(kept)
           /\ \A n \in kept : result[Cardinality({m \in kept : m <= n})] = returned[n]

\* two callbacks return candidates, some of which are filtered out
C2_Witness ==
    /\ pc = "done"
    /\ Len(callbacks) = 2
    /\ ~callbacks[1].throws /\ ~callbacks[2].throws
    /\ expr # <<>>
    /\ Len(result) >= 3
    /\ Len(result) < Len(all)

\* the last token, "" when there is none
lastTokenOf(toks) == IF toks = <<>> THEN <<>> ELSE toks[Len(toks)]

\* C3 as stated: index = 0 and text = "" when the input is empty; else index =
\* tokenCount and text = "" when hasTailingWhitespace(input); otherwise index
\* = tokenCount - 1 and text = the last token. Every callback of one call
\* receives that index and the full token sequence.
C3_ActiveToken ==
    \A n \in 1..Len(calls) :
        /\ calls[n].tokens = parse(input)
        /\ IF input = <<>> THEN calls[n].index = 0 /\ expr = <<>>
           ELSE IF hasTailingWhitespace(input)
                THEN calls[n].index = Len(calls[n].tokens) /\ expr = <<>>
                ELSE /\ calls[n].index = Len(calls[n].tokens) - 1
                     /\ expr = lastTokenOf(calls[n].tokens)

\* C3 amended: the first case is the input that is empty or all white space.
C3_ActiveTokenBlank ==
    \A n \in 1..Len(calls) :
        /\ calls[n].tokens = parse(input)
        /\ IF \A m \in 1..Len(input) : input[m] \in WhiteSpace
           THEN calls[n].index = 0 /\ expr = <<>>
           ELSE IF hasTailingWhitespace(input)
                THEN calls[n].index = Len(calls[n].tokens) /\ expr = <<>>
                ELSE /\ calls[n].index = Len(calls[n].tokens) - 1
                     /\ expr = lastTokenOf(calls[n].tokens)

\* two callbacks were called on a line that ends with a token and a space
C3_Witness ==
    /\ pc = "done"
    /\ hasTailingWhitespace(input)
    /\ Len(tokens) >= 1
    /\ index = Len(tokens)
    /\ Len(calls) = 2

====
